---- MODULE Spec2Model ----
(***************************************************************************)
(* Model of the streaming bridge of claude-max-api-proxy:                  *)
(*   ClaudeSubprocess (subprocess/manager.ts, the second half of           *)
(*   src/src/e2e.test.ts), handleStreamingResponse and                     *)
(*   handleNonStreamingResponse (src/src/server/routes.ts), and the        *)
(*   converters of src/src/adapter/cli-to-openai.ts.                       *)
(*                                                                         *)
(* The child process writes bytes; Node delivers them to the stdout "data" *)
(* handler in chunks of arbitrary size.  A byte is a string: every ASCII   *)
(* token of the NDJSON protocol is one byte, and the one non-ASCII         *)
(* character of the alphabet, U+00E9, is the two bytes C3 A9.              *)
(***************************************************************************)
EXTENDS Integers, Sequences, FiniteSets, TLC

(***************************************************************************)
(* Bounds of the model.                                                    *)
(***************************************************************************)
MaxLines == 2
MaxPromptLen == 2

(***************************************************************************)
(* State.                                                                  *)
(*   mode, script  the request's stream flag; the bytes the child has yet  *)
(*                 to write                                                *)
(*   req           the request: its messages field, and what openaiToCli   *)
(*                 makes of it (prompt, model, sessionId)                  *)
(*   args          the argument vector start() built for the child         *)
(*   phase         "new" until handleChatCompletions has run               *)
(*   sub           the ClaudeSubprocess: process, buffer, timeoutId,       *)
(*                 isKilled; timerPending is Node's side of timeoutId (the *)
(*                 callback is still scheduled) and signals counts the     *)
(*                 signals that reached the child; spawn is the outcome    *)
(*                 of spawn(), errorPending the child's "error" event yet  *)
(*                 to be emitted, start and rejection the promise that     *)
(*                 start() returned                                        *)
(*   exitCode      process.exitCode: "none" until the child has closed     *)
(*   ts            the closure state of the response handler               *)
(*   res           the Express response: writableEnded, headersSent, every *)
(*                 write (out); closed is "open" until res emits "close",  *)
(*                 then "early" (before res.end()) or "ended"              *)
(*   events        every event the ClaudeSubprocess has emitted            *)
(*   delivered     the bytes handed to the stdout "data" handler           *)
(*   killCalls     the calls of ClaudeSubprocess.kill()                    *)
(*   atClose       what the process "close" handler found and did          *)
(*   log           for every event processBuffer emitted: the event,       *)
(*                 whether the response was ended when it was emitted, and *)
(*                 the number of writes before and after its listener ran  *)
(*   nm            normalizeModelName applied to an identifier: the        *)
(*                 identifier and the successive results                   *)
(***************************************************************************)
VARIABLES mode, script, phase, sub, exitCode, ts, res, events, delivered,
          killCalls, atClose, log, nm, req, args

vars == <<mode, script, phase, sub, exitCode, ts, res, events, delivered,
          killCalls, atClose, log, nm, req, args>>

(***************************************************************************)
(* Bytes and characters.                                                   *)
(***************************************************************************)
NL == "\n"
SP == " "
LeadByte == "C3"
ContByte == "A9"
EAcute == "U+00E9"
Replacement == "U+FFFD"

\* chunk.toString(): UTF-8 decoding of ONE chunk.  A lead byte that is not
\* followed, inside the same chunk, by its continuation byte, and a
\* continuation byte without its lead byte, each decode to U+FFFD.
RECURSIVE toString(_)
toString(bytes) ==
    IF bytes = <<>> THEN <<>>
    ELSE IF bytes[1] = LeadByte /\ Len(bytes) >= 2 /\ bytes[2] = ContByte
         THEN <<EAcute>> \o toString(SubSeq(bytes, 3, Len(bytes)))
    ELSE IF bytes[1] \in {LeadByte, ContByte}
         THEN <<Replacement>> \o toString(Tail(bytes))
    ELSE <<bytes[1]>> \o toString(Tail(bytes))

\* String.prototype.split("\n"): always at least one element.
RECURSIVE split(_)
split(s) ==
    IF \A i \in 1..Len(s) : s[i] # NL THEN <<s>>
    ELSE LET k == CHOOSE i \in 1..Len(s) :
                     s[i] = NL /\ \A j \in 1..(i-1) : s[j] # NL
         IN  <<SubSeq(s, 1, k-1)>> \o split(SubSeq(s, k+1, Len(s)))

\* String.prototype.trim()
RECURSIVE trim(_)
trim(s) ==
    IF s = <<>> THEN s
    ELSE IF s[1] = SP THEN trim(Tail(s))
    ELSE IF s[Len(s)] = SP THEN trim(SubSeq(s, 1, Len(s)-1))
    ELSE s

(***************************************************************************)
(* The NDJSON protocol of the child.  A JSON line is an opener token that  *)
(* fixes the discriminator fields, a payload, and the closer "}".          *)
(*   {D  stream_event / content_block_delta / text_delta, payload = text   *)
(*   {T  stream_event / content_block_start / text                         *)
(*   {U  stream_event / content_block_start / tool_use                     *)
(*   {I  stream_event / content_block_delta / input_json_delta             *)
(*   {P  stream_event / content_block_stop                                 *)
(*   {A  assistant, payload = message.model                                *)
(*   {a  assistant, an object of type "assistant" without a message field  *)
(*   {R  result, payload = result text, then the optional fields:          *)
(*         "U" usage: {, followed by "i5" (input_tokens: 5) and/or         *)
(*             "o1" (output_tokens: 1)                                     *)
(*         "M" modelUsage: {, followed by the characters of its first key  *)
(* A string is a sequence of characters; a model identifier is a string    *)
(* whose characters are the words of ModelWords and "x"; the empty         *)
(* sequence stands for both "" and undefined, which the code tells apart   *)
(* nowhere (only by !model).                                               *)
(***************************************************************************)
Openers == {"{D", "{T", "{U", "{I", "{P", "{A", "{a", "{R"}
Closer == "}"
ModelWords == {"claude-", "opus", "sonnet", "haiku", "-4"}
TextChars == {"x", EAcute, Replacement} \cup ModelWords
FieldMarks == {"U", "M"}
FieldChars == FieldMarks \cup {"i5", "o1"}

Msg(type, text) ==
    [type |-> type, text |-> text, model |-> <<>>, usage |-> <<>>, modelUsage |-> <<>>]
NoMsg == Msg("none", <<>>)

\* The index of the first occurrence of one of the marks in s, Len(s)+1 if none.
firstMark(s, marks) ==
    IF \E i \in DOMAIN s : s[i] \in marks
    THEN CHOOSE i \in DOMAIN s : s[i] \in marks /\ \A j \in 1..(i-1) : s[j] \notin marks
    ELSE Len(s) + 1

\* The value of the field that starts at the mark: the characters up to the
\* next mark.
fieldAt(s, mark) ==
    LET k == firstMark(s, {mark})
        rest == SubSeq(s, k + 1, Len(s))
    IN  SubSeq(rest, 1, firstMark(rest, FieldMarks) - 1)
hasField(s, mark) == \E i \in DOMAIN s : s[i] = mark
hasChar(s, ch) == \E i \in DOMAIN s : s[i] = ch

\* JSON.parse(trimmed): [ok |-> FALSE] stands for the SyntaxError.
\*   usage       <<>> when the result has no usage block, else one record
\*               whose counts are <<n>>, or <<>> when the count is missing
\*   modelUsage  <<>> when the result has no modelUsage, else
\*               <<Object.keys(modelUsage)[0]>>
JSONparse(s) ==
    IF /\ Len(s) >= 2
       /\ s[1] \in Openers
       /\ s[Len(s)] = Closer
       /\ \A i \in 2..(Len(s)-1) : s[i] \in TextChars \cup FieldChars
    THEN LET payload == SubSeq(s, 2, Len(s)-1)
             text == SubSeq(payload, 1, firstMark(payload, FieldMarks) - 1)
             u == fieldAt(payload, "U")
         IN  [ok |-> TRUE,
              msg |-> [type |-> s[1], text |-> text, model |-> text,
                       usage |-> IF hasField(payload, "U")
                                 THEN <<[input_tokens |-> IF hasChar(u, "i5")
                                                          THEN <<5>> ELSE <<>>,
                                         output_tokens |-> IF hasChar(u, "o1")
                                                           THEN <<1>> ELSE <<>>]>>
                                 ELSE <<>>,
                       modelUsage |-> IF hasField(payload, "M")
                                      THEN <<fieldAt(payload, "M")>>
                                      ELSE <<>>]]
    ELSE [ok |-> FALSE, msg |-> NoMsg]

\* The classifier's predicates (types/claude-cli.ts).
isTextBlockStart(m) == m.type = "{T"
isToolUseBlockStart(m) == m.type = "{U"
isInputJsonDelta(m) == m.type = "{I"
isContentBlockStop(m) == m.type = "{P"
isContentDelta(m) == m.type = "{D"
isAssistantMessage(m) == m.type \in {"{A", "{a"}
isResultMessage(m) == m.type = "{R"

Ev(name, m) == [name |-> name, msg |-> m]
RawEv(line) == Ev("raw", Msg("raw", line))

\* Does the listener the response handler registered for the event throw?
\* The streaming handler's "assistant" listener reads message.message.model,
\* a TypeError when the object has no message field; the non-streaming
\* handler registers no such listener.
listenerThrows(ev) ==
    mode = "streaming" /\ ev.name = "assistant" /\ ev.msg.type = "{a"

\* The events processBuffer emits for one line, in the order of the emit
\* calls.  The emits are inside the try of JSON.parse: an emit whose
\* listener throws ends them, and the catch emits "raw".
lineEvents(line) ==
    LET trimmed == trim(line)
        p == JSONparse(trimmed)
        m == p.msg
        emits ==
             <<Ev("message", m)>>
             \o (IF isTextBlockStart(m) THEN <<Ev("text_block_start", m)>> ELSE <<>>)
             \o (IF isToolUseBlockStart(m) THEN <<Ev("tool_use_start", m)>> ELSE <<>>)
             \o (IF isInputJsonDelta(m) THEN <<Ev("input_json_delta", m)>> ELSE <<>>)
             \o (IF isContentBlockStop(m) THEN <<Ev("content_block_stop", m)>> ELSE <<>>)
             \o (IF isContentDelta(m) THEN <<Ev("content_delta", m)>>
                 ELSE IF isAssistantMessage(m) THEN <<Ev("assistant", m)>>
                 ELSE IF isResultMessage(m) THEN <<Ev("result", m)>>
                 ELSE <<>>)
        thrown == { i \in DOMAIN emits : listenerThrows(emits[i]) }
    IN  IF trimmed = <<>> THEN <<>>
        ELSE IF ~p.ok THEN <<RawEv(trimmed)>>
        ELSE IF thrown = {} THEN emits
        ELSE LET first == CHOOSE i \in thrown : \A j \in thrown : i <= j
             IN  SubSeq(emits, 1, first) \o <<RawEv(trimmed)>>

RECURSIVE linesEvents(_)
linesEvents(lines) ==
    IF lines = <<>> THEN <<>>
    ELSE lineEvents(lines[1]) \o linesEvents(Tail(lines))

\* processBuffer(): lines = buffer.split("\n"); buffer = lines.pop() || "";
\* then every remaining line is decoded.
processBufferLines(buf) == LET l == split(buf) IN SubSeq(l, 1, Len(l)-1)
processBufferCarry(buf) == LET l == split(buf) IN l[Len(l)]
processBufferEvents(buf) == linesEvents(processBufferLines(buf))

(***************************************************************************)
(* Model-label normalization (adapter/cli-to-openai.ts).                   *)
(***************************************************************************)
OpusLabel == <<"claude-", "opus", "-4">>
SonnetLabel == <<"claude-", "sonnet", "-4">>
HaikuLabel == <<"claude-", "haiku", "-4">>

\* String.prototype.includes(word), for a word that is one character of the
\* model's alphabet.
includes(model, word) == \E i \in DOMAIN model : model[i] = word

\* A normalizeModelName without its last line: undefined for an identifier
\* that names no family.
normalizeModelNameNoFallthrough(model) ==
    IF model = <<>> THEN SonnetLabel
    ELSE IF includes(model, "opus") THEN OpusLabel
    ELSE IF includes(model, "sonnet") THEN SonnetLabel
    ELSE IF includes(model, "haiku") THEN HaikuLabel
    ELSE <<>>

\* A normalizeModelName that maps every identifier that names no family to
\* the sonnet label.
normalizeModelNameSonnetDefault(model) ==
    IF model = <<>> THEN SonnetLabel
    ELSE IF includes(model, "opus") THEN OpusLabel
    ELSE IF includes(model, "sonnet") THEN SonnetLabel
    ELSE IF includes(model, "haiku") THEN HaikuLabel
    ELSE SonnetLabel

normalizeModelName(model) ==
    IF model = <<>> THEN SonnetLabel
    ELSE IF includes(model, "opus") THEN OpusLabel
    ELSE IF includes(model, "sonnet") THEN SonnetLabel
    ELSE IF includes(model, "haiku") THEN HaikuLabel
    ELSE model

(***************************************************************************)
(* What is written to the response.  One record shape for every write:     *)
(* (error is a message, <<>> when there is none; model is <<>> when the    *)
(* write has no model; usage is <<>> or <<prompt, completion, total>>)     *)
(*   comment  the initial ":ok" line                                       *)
(*   chunk    a chat.completion.chunk frame                                *)
(*   error    an inline {error: ...} frame                                 *)
(*   done     the sentinel "data: [DONE]"                                  *)
(*   json     a res.json(...) call of the non-streaming handler            *)
(***************************************************************************)
Write(type, role, content, model, finish, error) ==
    [type |-> type, role |-> role, content |-> content, model |-> model,
     finish |-> finish, error |-> error, usage |-> <<>>]

OkComment == Write("comment", "none", <<>>, <<>>, "null", <<>>)
DoneSentinel == Write("done", "none", <<>>, <<>>, "null", <<>>)
ErrorFrame(message) == Write("error", "none", <<>>, <<>>, "null", message)
\* value || 0, for a count that is <<n>> or missing
orZero(count) == IF count = <<>> THEN 0 ELSE count[1]
\* A usage summary whose total leaves out the completion tokens.
usageOfPromptOnly(u) ==
    <<orZero(u.input_tokens), orZero(u.output_tokens), orZero(u.input_tokens)>>
\* {prompt_tokens, completion_tokens, total_tokens} of a usage block
usageOf(u) ==
    <<orZero(u.input_tokens), orZero(u.output_tokens),
      orZero(u.input_tokens) + orZero(u.output_tokens)>>
\* createDoneChunk(requestId, model)
createDoneChunk(model) ==
    Write("chunk", "none", <<>>, normalizeModelName(model), "stop", <<>>)

TimeoutMessage == <<"Request timed out">>
ExitMessage(code) == <<"Process exited with code", code>>
NoResponseMessage(code) == <<"Claude CLI exited without response, code", code>>

\* res.write(...): appended whether or not the socket is still there; the
\* handlers test res.writableEnded themselves.
write(r, frame) == [r EXCEPT !.out = Append(@, frame)]
\* res.end()
end(r) == [r EXCEPT !.writableEnded = TRUE]
\* res.status(code).json(body): every call is recorded; Express throws
\* ERR_HTTP_HEADERS_SENT for a call after the headers were sent.
json(r, status, body) ==
    [r EXCEPT !.out = Append(@, [Write("json", "none", body.text, body.model, status,
                                        body.error) EXCEPT !.usage = body.usage]),
              !.thrown = @ \/ r.headersSent,
              !.headersSent = TRUE]

(***************************************************************************)
(* handleStreamingResponse: the listeners, over c = [ts, res].             *)
(***************************************************************************)
SeparatorText == <<NL, NL>>

\* A text_block_start listener that does not look at hasEmittedText.
sOnTextBlockStartAlways(c) ==
    IF ~c.res.writableEnded
    THEN [c EXCEPT !.res = write(@, Write("chunk", "none", SeparatorText,
                                          c.ts.lastModel, "null", <<>>))]
    ELSE c

\* subprocess.on("text_block_start")
sOnTextBlockStart(c) ==
    IF c.ts.hasEmittedText /\ ~c.res.writableEnded
    THEN [c EXCEPT !.res = write(@, Write("chunk", "none", SeparatorText,
                                          c.ts.lastModel, "null", <<>>))]
    ELSE c

\* A content_delta listener that never clears isFirst.
sOnContentDeltaKeepsFirst(c, m) ==
    IF m.text # <<>> /\ ~c.res.writableEnded
    THEN [c EXCEPT !.res = write(@, Write("chunk",
                                          IF c.ts.isFirst THEN "assistant" ELSE "none",
                                          m.text, c.ts.lastModel, "null", <<>>)),
                   !.ts.hasEmittedText = TRUE]
    ELSE c

\* subprocess.on("content_delta")
sOnContentDelta(c, m) ==
    IF m.text # <<>> /\ ~c.res.writableEnded
    THEN [c EXCEPT !.res = write(@, Write("chunk",
                                          IF c.ts.isFirst THEN "assistant" ELSE "none",
                                          m.text, c.ts.lastModel, "null", <<>>)),
                   !.ts.isFirst = FALSE,
                   !.ts.hasEmittedText = TRUE]
    ELSE c

\* subprocess.on("assistant"): lastModel = message.message.model, which
\* throws before the assignment when there is no message.message.
sOnAssistant(c, m) ==
    IF listenerThrows(Ev("assistant", m)) THEN c
    ELSE [c EXCEPT !.ts.lastModel = m.model]

\* subprocess.on("result")
sOnResult(c, m) ==
    LET c1 == [c EXCEPT !.ts.isComplete = TRUE]
        doneChunk == createDoneChunk(c.ts.lastModel)
        withUsage == IF m.usage # <<>>
                     THEN [doneChunk EXCEPT !.usage = usageOf(m.usage[1])]
                     ELSE doneChunk
    IN  IF ~c.res.writableEnded
        THEN [c1 EXCEPT !.res = end(write(write(@, withUsage), DoneSentinel))]
        ELSE c1

\* subprocess.on("error")
\* An error listener that does not look at res.writableEnded.
sOnErrorUnguarded(c, message) ==
    [c EXCEPT !.res = end(write(@, ErrorFrame(message)))]

sOnError(c, message) ==
    IF ~c.res.writableEnded
    THEN [c EXCEPT !.res = end(write(@, ErrorFrame(message)))]
    ELSE c

\* A close listener that reports every exit code, 0 included, as abnormal.
sOnCloseAnyCode(c, code) ==
    IF ~c.res.writableEnded
    THEN LET r1 == IF ~c.ts.isComplete
                   THEN write(c.res, ErrorFrame(ExitMessage(code)))
                   ELSE c.res
         IN  [c EXCEPT !.res = end(write(r1, DoneSentinel))]
    ELSE c

\* subprocess.on("close")
sOnClose(c, code) ==
    IF ~c.res.writableEnded
    THEN LET r1 == IF code # "0" /\ ~c.ts.isComplete
                   THEN write(c.res, ErrorFrame(ExitMessage(code)))
                   ELSE c.res
         IN  [c EXCEPT !.res = end(write(r1, DoneSentinel))]
    ELSE c

(***************************************************************************)
(* handleNonStreamingResponse: the listeners.                              *)
(***************************************************************************)
ErrorBody(message) == [text |-> <<>>, model |-> <<>>, error |-> message, usage |-> <<>>]
\* A cliResultToOpenai that does not look at modelUsage.
cliResultToOpenaiDefaultModel(result) ==
    LET usage == IF result.usage # <<>> THEN result.usage[1]
                 ELSE [input_tokens |-> <<>>, output_tokens |-> <<>>]
    IN  [text |-> result.text, model |-> normalizeModelName(SonnetLabel),
         error |-> <<>>, usage |-> usageOf(usage)]

\* cliResultToOpenai(result, requestId): result.usage?.x || 0 is 0 for a
\* missing block as for a missing count.
cliResultToOpenai(result) ==
    LET modelName == IF result.modelUsage # <<>> THEN result.modelUsage[1]
                     ELSE SonnetLabel
        usage == IF result.usage # <<>> THEN result.usage[1]
                 ELSE [input_tokens |-> <<>>, output_tokens |-> <<>>]
    IN  [text |-> result.text, model |-> normalizeModelName(modelName),
         error |-> <<>>, usage |-> usageOf(usage)]

nOnResult(c, m) == [c EXCEPT !.ts.finalResult = m]

nOnError(c, message) == [c EXCEPT !.res = json(@, "500", ErrorBody(message))]

\* A close listener that answers an exit with code 0 as a success, result
\* or not.
nOnCloseSuccessOnZero(c, code) ==
    IF c.ts.finalResult # NoMsg \/ code = "0"
    THEN [c EXCEPT !.res = json(@, "200", cliResultToOpenai(c.ts.finalResult))]
    ELSE IF ~c.res.headersSent
    THEN [c EXCEPT !.res = json(@, "500", ErrorBody(NoResponseMessage(code)))]
    ELSE c

nOnClose(c, code) ==
    IF c.ts.finalResult # NoMsg
    THEN [c EXCEPT !.res = json(@, "200", cliResultToOpenai(c.ts.finalResult))]
    ELSE IF ~c.res.headersSent
    THEN [c EXCEPT !.res = json(@, "500", ErrorBody(NoResponseMessage(code)))]
    ELSE c

\* subprocess.start(...).catch of the two handlers.  The streaming one
\* rejects the handler's promise, which the catch of handleChatCompletions
\* answers only if no header was sent; the non-streaming one answers itself.
startCatch(streaming, r, reason) ==
    IF streaming
    THEN IF ~r.headersSent THEN json(r, "500", ErrorBody(reason)) ELSE r
    ELSE json(r, "500", ErrorBody(reason))

(***************************************************************************)
(* handleChatCompletions: the validation of the request body.              *)
(***************************************************************************)
\* The error object of the 400: its message, type and code.  (The error
\* objects of the 500s have the type "server_error" and the code null; only
\* their message is kept.)
InvalidMessages ==
    <<"messages is required and must be a non-empty array", "invalid_request_error",
      "invalid_messages">>

\* A validation that lets an empty array through.
invalidMessagesAllowsEmpty(m) == ~m.present \/ ~m.isArray

\* !body.messages || !Array.isArray(body.messages) || body.messages.length === 0
invalidMessages(m) == ~m.present \/ ~m.isArray \/ m.length = 0

(***************************************************************************)
(* buildArgs(prompt, options).  An argument is a string, here the sequence *)
(* of its parts.                                                           *)
(***************************************************************************)
OPENCLAW_TOOL_MAPPING_PROMPT == <<"OPENCLAW_TOOL_MAPPING_PROMPT">>

\* A buildArgs that puts the prompt after the session arguments.
buildArgsPromptLast(prompt, options) ==
    LET fixed == << <<"--print">>, <<"--dangerously-skip-permissions">>,
                    <<"--output-format">>, <<"stream-json">>, <<"--verbose">>,
                    <<"--include-partial-messages">>, <<"--model">>, options.model,
                    <<"--no-session-persistence">>, <<"--append-system-prompt">>,
                    OPENCLAW_TOOL_MAPPING_PROMPT >>
    IN  IF options.sessionId # <<>>
        THEN fixed \o << <<"--session-id">>, options.sessionId, prompt >>
        ELSE fixed \o <<prompt>>

buildArgs(prompt, options) ==
    LET args0 == << <<"--print">>, <<"--dangerously-skip-permissions">>,
                    <<"--output-format">>, <<"stream-json">>, <<"--verbose">>,
                    <<"--include-partial-messages">>, <<"--model">>, options.model,
                    <<"--no-session-persistence">>, <<"--append-system-prompt">>,
                    OPENCLAW_TOOL_MAPPING_PROMPT, prompt >>
    IN  IF options.sessionId # <<>>
        THEN args0 \o << <<"--session-id">>, options.sessionId >>
        ELSE args0


(***************************************************************************)
(* ClaudeSubprocess.                                                       *)
(***************************************************************************)
\* A clearTimeout() that forgets the handle but leaves the timer scheduled.
clearTimeoutKeepsTimer(s) == [s EXCEPT !.timeoutId = "null"]

\* clearTimeout()
clearTimeout(s) ==
    IF s.timeoutId # "null"
    THEN [s EXCEPT !.timeoutId = "null", !.timerPending = FALSE]
    ELSE s

\* ChildProcess.kill(signal): a signal reaches the child only while it lives;
\* a child that was never spawned has nothing to signal.
processKill(s) ==
    IF s.process # "null" /\ s.spawn = "ok" /\ exitCode = "none"
    THEN [s EXCEPT !.signals = @ + 1]
    ELSE s

\* A kill() that does not look at isKilled.
killUnguarded(s) ==
    IF s.process # "null"
    THEN processKill(clearTimeout([s EXCEPT !.isKilled = TRUE]))
    ELSE s

\* A kill() that leaves the timer alone.
killKeepsTimer(s) ==
    IF ~s.isKilled /\ s.process # "null"
    THEN processKill([s EXCEPT !.isKilled = TRUE])
    ELSE s

\* kill(signal)
kill(s) ==
    IF ~s.isKilled /\ s.process # "null"
    THEN processKill(clearTimeout([s EXCEPT !.isKilled = TRUE]))
    ELSE s

\* The setTimeout callback, up to its emit("error").
timeoutExpires(s) == ~s.isKilled
onTimeout(s) == processKill([s EXCEPT !.isKilled = TRUE])

\* isRunning().  this.process.exitCode is null until the child exits, and
\* stays null when a signal ended it (signalCode is set instead).
isRunning(s) ==
    s.process # "null" /\ ~s.isKilled /\ exitCode \in {"none", "null"}

\* The promise start() returns: the first resolve or reject settles it, a
\* later one does nothing.
resolve(s) ==
    IF s.start = "pending" THEN [s EXCEPT !.start = "resolved"] ELSE s
reject(s, reason) ==
    IF s.start = "pending"
    THEN [s EXCEPT !.start = "rejected", !.rejection = reason]
    ELSE s

\* What spawn("claude", args) can come to.  A missing or non-executable
\* binary is reported by the child's "error" event, after spawn() returned
\* a handle; an argument list the kernel refuses makes spawn() throw.
SpawnOutcomes == {"ok", "ENOENT", "EACCES", "E2BIG"}
spawnThrows(outcome) == outcome = "E2BIG"
SpawnMessage(outcome) == <<"spawn claude ", outcome>>
SpawnErrno(outcome) == IF outcome = "ENOENT" THEN "-2" ELSE "-13"
NotFoundMessage ==
    <<"Claude CLI not found. Install with: npm install -g @anthropic-ai/claude-code">>

\* start(prompt, options), up to the end of the promise's executor.
start(s, outcome) ==
    LET s0 == [s EXCEPT !.start = "pending"]
    IN  IF spawnThrows(outcome)
        THEN reject(clearTimeout(s0), SpawnMessage(outcome))
        ELSE resolve([s0 EXCEPT !.process = "handle", !.spawn = outcome,
                                !.timeoutId = "set", !.timerPending = TRUE,
                                !.errorPending = (outcome # "ok")])

\* this.process.on("error") of start().
onProcessError(s) ==
    LET err == SpawnMessage(s.spawn)
        s1 == [clearTimeout(s) EXCEPT !.errorPending = FALSE]
    IN  IF includes(err, "ENOENT")
        THEN reject(s1, NotFoundMessage)
        ELSE reject(s1, err)

\* An emitter with a tool_use_start listener that opens a tool call and
\* writes a frame for it.
deliverWithTools(c, ev) ==
    IF mode = "streaming"
    THEN CASE ev.name = "text_block_start" -> sOnTextBlockStart(c)
           [] ev.name = "tool_use_start" ->
                [c EXCEPT !.ts.inToolBlock = TRUE,
                          !.ts.toolCallIndex = @ + 1,
                          !.res = IF c.res.writableEnded THEN @
                                  ELSE write(@, Write("chunk", "none", <<>>,
                                                      c.ts.lastModel, "null", <<>>))]
           [] ev.name = "content_delta" -> sOnContentDelta(c, ev.msg)
           [] ev.name = "assistant" -> sOnAssistant(c, ev.msg)
           [] ev.name = "result" -> sOnResult(c, ev.msg)
           [] OTHER -> c
    ELSE CASE ev.name = "result" -> nOnResult(c, ev.msg)
           [] OTHER -> c

\* An emitter with a "raw" listener that fails the request.
deliverRawFatal(c, ev) ==
    IF ev.name = "raw"
    THEN IF mode = "streaming" THEN sOnError(c, ev.msg.text) ELSE nOnError(c, ev.msg.text)
    ELSE IF mode = "streaming"
    THEN CASE ev.name = "text_block_start" -> sOnTextBlockStart(c)
           [] ev.name = "content_delta" -> sOnContentDelta(c, ev.msg)
           [] ev.name = "assistant" -> sOnAssistant(c, ev.msg)
           [] ev.name = "result" -> sOnResult(c, ev.msg)
           [] OTHER -> c
    ELSE CASE ev.name = "result" -> nOnResult(c, ev.msg)
           [] OTHER -> c

\* EventEmitter.emit: the listener registered for the event runs at once.
deliver(c, ev) ==
    IF mode = "streaming"
    THEN CASE ev.name = "text_block_start" -> sOnTextBlockStart(c)
           [] ev.name = "content_delta" -> sOnContentDelta(c, ev.msg)
           [] ev.name = "assistant" -> sOnAssistant(c, ev.msg)
           [] ev.name = "result" -> sOnResult(c, ev.msg)
           [] OTHER -> c
    ELSE CASE ev.name = "result" -> nOnResult(c, ev.msg)
           [] OTHER -> c

\* An emitter that runs the listeners of one chunk's events last to first.
RECURSIVE deliverAllReversed(_, _)
deliverAllReversed(c, evs) ==
    IF evs = <<>> THEN c
    ELSE deliver(deliverAllReversed(c, Tail(evs)), evs[1])

RECURSIVE deliverAll(_, _)
deliverAll(c, evs) ==
    IF evs = <<>> THEN c ELSE deliverAll(deliver(c, evs[1]), Tail(evs))

RECURSIVE logAll(_, _)
logAll(c, evs) ==
    IF evs = <<>> THEN <<>>
    ELSE LET c2 == deliver(c, evs[1])
         IN  <<[ev |-> evs[1], ended |-> c.res.writableEnded,
                out |-> Len(c.res.out), outAfter |-> Len(c2.res.out)]>>
             \o logAll(c2, Tail(evs))

emitError(c, message) ==
    IF mode = "streaming" THEN sOnError(c, message) ELSE nOnError(c, message)
emitClose(c, code) ==
    IF mode = "streaming" THEN sOnClose(c, code) ELSE nOnClose(c, code)

ErrorEv(message) ==
    Ev("error", Msg("error", message))
\* A close event that reports the code 0 whatever the exit.
CloseEvZero(code) ==
    Ev("close", Msg("close", <<"0">>))

CloseEv(code) ==
    Ev("close", Msg("close", <<code>>))

\* A res "close" listener that kills whether or not the request completed.
killOnResCloseAlways(c) == TRUE

\* res.on("close") of handleStreamingResponse: is subprocess.kill() called?
killOnResClose(c) == ~c.ts.isComplete

(***************************************************************************)
(* The child's output: up to MaxLines lines of LinePool, the last one      *)
(* with or without its newline.                                            *)
(***************************************************************************)
LinePool ==
    { <<"{D", "x", "}">>, <<"{D", LeadByte, ContByte, "}">>, <<"{T", "}">>,
      <<"{R", "x", "}">>, <<"x">>, <<SP>> }

RECURSIVE joinLines(_)
joinLines(ls) ==
    IF ls = <<>> THEN <<>> ELSE ls[1] \o <<NL>> \o joinLines(Tail(ls))

Scripts ==
    LET seqs == UNION { [1..n -> LinePool] : n \in 0..MaxLines }
    IN  { joinLines(ls) : ls \in seqs }
        \cup { SubSeq(joinLines(ls), 1, Len(joinLines(ls)) - 1) : ls \in seqs \ {<<>>} }

ExitCodes == {"0", "1", "null"}
SpawnCodes == {"-2", "-13"}

\* The bodies of the requests: messages absent, a string, an empty array,
\* an array of one message.
Bodies ==
    { [present |-> FALSE, isArray |-> FALSE, length |-> 0],
      [present |-> TRUE, isArray |-> FALSE, length |-> 1],
      [present |-> TRUE, isArray |-> TRUE, length |-> 0],
      [present |-> TRUE, isArray |-> TRUE, length |-> 1] }
ValidBody == [present |-> TRUE, isArray |-> TRUE, length |-> 1]

Requests ==
    [messages : Bodies, prompt : {<<"x">>}, model : {<<"opus">>}, sessionId : {<<>>}]
ValidRequests == { r \in Requests : r.messages = ValidBody }

InitWith(scripts, models, requests) ==
    /\ mode \in {"streaming", "nonstreaming"}
    /\ script \in scripts
    /\ phase = "new"
    /\ sub = [process |-> "null", buffer |-> <<>>, timeoutId |-> "null",
              isKilled |-> FALSE, timerPending |-> FALSE, signals |-> 0,
              spawn |-> "none", errorPending |-> FALSE, start |-> "none",
              rejection |-> <<>>]
    /\ exitCode = "none"
    /\ ts = [isFirst |-> TRUE, lastModel |-> SonnetLabel, isComplete |-> FALSE,
             hasEmittedText |-> FALSE, toolCallIndex |-> 0, inToolBlock |-> FALSE,
             finalResult |-> NoMsg]
    /\ res = [writableEnded |-> FALSE, headersSent |-> FALSE, out |-> <<>>,
              thrown |-> FALSE, closed |-> "open", outAtClose |-> 0,
              completeAtClose |-> FALSE]
    /\ events = <<>>
    /\ delivered = <<>>
    /\ killCalls = 0
    /\ atClose = [carry |-> <<>>, flushed |-> <<>>, out |-> 0, ended |-> FALSE,
                  complete |-> FALSE]
    /\ log = <<>>
    /\ nm \in [model : models, results : {<<>>}]
    /\ req \in requests
    /\ args = <<>>

Init == InitWith(Scripts, {<<>>}, Requests)

\* handleChatCompletions: a body without a non-empty messages array is
\* answered 400.  Otherwise handle(Non)StreamingResponse registers the
\* listeners and calls subprocess.start(), which builds the arguments,
\* spawns the child and sets the timer; a start() that rejected is caught.
HandleChatCompletions ==
    /\ phase = "new"
    /\ IF invalidMessages(req.messages)
       THEN /\ phase' = "rejected"
            /\ res' = json(res, "400", ErrorBody(InvalidMessages))
            /\ UNCHANGED <<sub, args>>
       ELSE \E outcome \in SpawnOutcomes :
              LET s == start(sub, outcome)
                  r == IF mode = "streaming"
                       THEN [write(res, OkComment) EXCEPT !.headersSent = TRUE]
                       ELSE res
              IN  /\ phase' = "running"
                  /\ args' = buildArgs(req.prompt, [model |-> req.model,
                                                    sessionId |-> req.sessionId])
                  /\ sub' = s
                  /\ res' = IF s.start = "rejected"
                            THEN startCatch(mode = "streaming", r, s.rejection)
                            ELSE r
    /\ UNCHANGED <<mode, script, exitCode, ts, events, delivered, killCalls, atClose,
                   log, nm, req>>

\* The child's "error" event after a spawn that failed: the listener of
\* start() runs; should it reject start(), the handler's catch runs too.
ProcError ==
    /\ sub.errorPending
    /\ LET s == onProcessError(sub)
       IN  /\ sub' = s
           /\ res' = IF s.start = "rejected" /\ sub.start # "rejected"
                     THEN startCatch(mode = "streaming", res, s.rejection)
                     ELSE res
    /\ UNCHANGED <<mode, script, phase, exitCode, ts, events, delivered, killCalls,
                   atClose, log, nm, req, args>>

\* this.process.stdout.on("data"): buffer += chunk.toString(); processBuffer()
StdoutData(n) ==
    /\ sub.process = "handle"
    /\ sub.spawn = "ok"
    /\ exitCode = "none"
    /\ n \in 1..Len(script)
    /\ LET chunk == SubSeq(script, 1, n)
           buf == sub.buffer \o toString(chunk)
           evs == processBufferEvents(buf)
           c == deliverAll([ts |-> ts, res |-> res], evs)
       IN  /\ sub' = [sub EXCEPT !.buffer = processBufferCarry(buf)]
           /\ events' = events \o evs
           /\ ts' = c.ts
           /\ res' = c.res
           /\ log' = log \o logAll([ts |-> ts, res |-> res], evs)
           /\ delivered' = delivered \o chunk
           /\ script' = SubSeq(script, n + 1, Len(script))
    /\ UNCHANGED <<mode, phase, exitCode, killCalls, atClose, nm, req, args>>

\* The setTimeout callback of start().
Timeout ==
    /\ sub.timerPending
    /\ ~sub.errorPending
    /\ IF timeoutExpires(sub)
       THEN LET c == emitError([ts |-> ts, res |-> res], TimeoutMessage)
            IN  /\ sub' = [onTimeout(sub) EXCEPT !.timerPending = FALSE]
                /\ events' = Append(events, ErrorEv(TimeoutMessage))
                /\ ts' = c.ts
                /\ res' = c.res
       ELSE /\ sub' = [sub EXCEPT !.timerPending = FALSE]
            /\ UNCHANGED <<events, ts, res>>
    /\ UNCHANGED <<mode, script, phase, exitCode, delivered, killCalls, atClose,
                   log, nm, req, args>>

\* res.on("close") of handleStreamingResponse; the non-streaming handler
\* registers no such listener.
ResClose ==
    /\ phase = "running"
    /\ mode = "streaming"
    /\ res.closed = "open"
    /\ ~sub.errorPending
    /\ res' = [res EXCEPT !.closed = IF res.writableEnded THEN "ended" ELSE "early",
                          !.outAtClose = Len(res.out),
                          !.completeAtClose = ts.isComplete]
    /\ IF killOnResClose([ts |-> ts, res |-> res])
       THEN /\ killCalls' = killCalls + 1
            /\ sub' = kill(sub)
       ELSE UNCHANGED <<killCalls, sub>>
    /\ UNCHANGED <<mode, script, phase, exitCode, ts, events, delivered, atClose,
                   log, nm, req, args>>

\* this.process.on("close"): clearTimeout(); the remaining buffer is
\* processed if it is not blank; then "close" is emitted.  A child that was
\* never spawned closes with the negated errno of the failure.
ProcClose(code) ==
    /\ sub.process = "handle"
    /\ exitCode = "none"
    /\ ~sub.errorPending
    /\ IF sub.spawn = "ok" THEN code \in ExitCodes ELSE code = SpawnErrno(sub.spawn)
    /\ exitCode' = code
    /\ LET flush == trim(sub.buffer) # <<>>
           evs == IF flush THEN processBufferEvents(sub.buffer) ELSE <<>>
           c1 == deliverAll([ts |-> ts, res |-> res], evs)
           c == emitClose(c1, code)
       IN  /\ sub' = [clearTimeout(sub) EXCEPT
                        !.buffer = IF flush THEN processBufferCarry(@) ELSE @]
           /\ events' = (events \o evs) \o <<CloseEv(code)>>
           /\ log' = log \o logAll([ts |-> ts, res |-> res], evs)
           /\ ts' = c.ts
           /\ res' = c.res
           /\ atClose' = [carry |-> sub.buffer, flushed |-> evs, out |-> Len(c1.res.out),
                          ended |-> c1.res.writableEnded,
                          complete |-> c1.ts.isComplete]
    /\ UNCHANGED <<mode, script, phase, delivered, killCalls, nm, req, args>>

Next ==
    \/ HandleChatCompletions
    \/ \E n \in 1..Len(script) : StdoutData(n)
    \/ Timeout
    \/ ResClose
    \/ ProcError
    \/ \E code \in ExitCodes \cup SpawnCodes : ProcClose(code)

Spec == Init /\ [][Next]_vars

(***************************************************************************)
(* The translation of a well-formed stream: the child writes whole lines   *)
(* of the protocol, with every kind of event the classifier knows, results *)
(* with and without usage and modelUsage, and an assistant message whose   *)
(* model is of the opus family.                                            *)
(***************************************************************************)
EventPool ==
    { <<"{D", "x", "}">>, <<"{T", "}">>, <<"{U", "}">>, <<"{I", "}">>, <<"{P", "}">>,
      <<"{A", "opus", "x", "}">>,
      <<"{R", "x", "}">>, <<"{R", "x", "U", "i5", "o1", "}">>, <<"{R", "x", "U", "i5", "}">>,
      <<"{R", "x", "M", "haiku", "x", "}">> }

EventScripts ==
    { joinLines(ls) : ls \in UNION { [1..n -> EventPool] : n \in 0..MaxLines } }

SpecEvents == InitWith(EventScripts, {<<>>}, ValidRequests) /\ [][Next]_vars

(***************************************************************************)
(* A child whose result repeats what it streamed: up to MaxLines text      *)
(* deltas, each in a text block of its own or all in one block, and then   *)
(* the result, whose text is the concatenation of the deltas' texts.       *)
(***************************************************************************)
TextPool == { <<"x">>, <<LeadByte, ContByte>> }

RECURSIVE concat(_)
concat(ss) == IF ss = <<>> THEN <<>> ELSE ss[1] \o concat(Tail(ss))

RECURSIVE deltaLines(_, _)
deltaLines(texts, blocks) ==
    IF texts = <<>> THEN <<>>
    ELSE (IF blocks THEN << <<"{T", "}">> >> ELSE <<>>)
         \o << <<"{D">> \o texts[1] \o <<"}">> >>
         \o deltaLines(Tail(texts), blocks)

ConsistentScripts ==
    { joinLines(deltaLines(texts, blocks) \o << <<"{R">> \o concat(texts) \o <<"}">> >>) :
        texts \in UNION { [1..n -> TextPool] : n \in 0..MaxLines }, blocks \in BOOLEAN }

SpecConsistent == InitWith(ConsistentScripts, {<<>>}, ValidRequests) /\ [][Next]_vars

(***************************************************************************)
(* normalizeModelName as a function: the identifier is any string of up to *)
(* MaxIdLen characters, and the function is applied to it and then to its  *)
(* own result, MaxApply times in all.                                      *)
(***************************************************************************)
MaxIdLen == 3
MaxApply == 2
ModelIds == UNION { [1..n -> ModelWords \cup {"x"}] : n \in 0..MaxIdLen }

Normalize ==
    /\ Len(nm.results) < MaxApply
    /\ nm' = [nm EXCEPT !.results =
                 Append(@, normalizeModelName(IF @ = <<>> THEN nm.model ELSE @[Len(@)]))]
    /\ UNCHANGED <<mode, script, phase, sub, exitCode, ts, res, events, delivered,
                   killCalls, atClose, log, req, args>>

SpecNormalize == InitWith({<<>>}, ModelIds, ValidRequests) /\ [][Normalize]_vars

(***************************************************************************)
(* Properties.                                                             *)
(***************************************************************************)
Sentinels == {i \in DOMAIN res.out : res.out[i] = DoneSentinel}
TimeoutErrors(type) ==
    {i \in DOMAIN res.out : res.out[i].type = type /\ res.out[i].error = TimeoutMessage}
ErrorEvents == {i \in DOMAIN events : events[i].name = "error"}
CloseEvents == {i \in DOMAIN events : events[i].name = "close"}
isDelta(f) == f.type = "chunk" /\ f.content # <<>> /\ f.content # SeparatorText
\* What the process "close" handler's listener wrote to the response.
CloseWrites == SubSeq(res.out, atClose.out + 1, Len(res.out))

\* C1: in streaming mode, a request the client did not cancel has exactly
\* one "data: [DONE]" sentinel written by the time its response is ended,
\* whichever event ended it (result, timeout error, close without result).
C1_ExactlyOneSentinel ==
    (mode = "streaming" /\ res.writableEnded /\ res.closed # "early")
        => Cardinality(Sentinels) = 1

\* C2: in non-streaming mode res.json is called at most once, exactly once
\* when the process has closed, and never on a response already answered,
\* under every interleaving of result, timeout error and close.
C2_ExactlyOneResponse ==
    mode = "nonstreaming"
        => /\ Len(res.out) <= 1
           /\ ~res.thrown
           /\ exitCode # "none" => Len(res.out) = 1

\* C3: while the child runs, the decoder events emitted for the chunks
\* delivered so far are the events of feeding the same bytes as one chunk.
C3_ChunkingInvariant ==
    exitCode = "none"
        => SelectSeq(events, LAMBDA e : e.name # "error")
               = processBufferEvents(toString(delivered))

\* C4: when the process closes with a non-blank carry-over in the buffer,
\* the close handler decodes that carry-over (message events or a raw
\* event) before it emits "close".
C4_CarryFlushedOnce ==
    (exitCode # "none" /\ trim(atClose.carry) # <<>>)
        => atClose.flushed = lineEvents(atClose.carry)

\* C5: at most one timeout error event per session, never after the close
\* event; when it is raised the session is marked killed and one SIGTERM
\* has reached the child; if it is the first event of the session, the
\* timeout error is surfaced exactly once and nothing but the ":ok"
\* comment precedes it on the response.
C5_TimeoutOnce ==
    /\ Cardinality(ErrorEvents) <= 1
    /\ \A i \in ErrorEvents : \A j \in CloseEvents : i < j
    /\ ErrorEvents # {} => (sub.isKilled /\ sub.signals = 1)
    /\ (events # <<>> /\ events[1].name = "error")
         => IF mode = "streaming"
            THEN /\ Len(res.out) >= 2
                 /\ res.out[1] = OkComment
                 /\ res.out[2] = ErrorFrame(TimeoutMessage)
                 /\ Cardinality(TimeoutErrors("error")) = 1
            ELSE /\ Len(res.out) >= 1
                 /\ res.out[1].type = "json"
                 /\ res.out[1].error = TimeoutMessage
                 /\ Cardinality(TimeoutErrors("json")) = 1

C5_Witness ==
    /\ events # <<>>
    /\ events[1].name = "error"
    /\ exitCode = "null"
    /\ delivered # <<>>

\* C6: a kill() call on a session that is already killed, or whose process
\* has already closed, changes nothing of the session and sends no signal.
C6_KillIdempotent ==
    [][(killCalls' = killCalls + 1 /\ (sub.isKilled \/ exitCode # "none"))
          => sub' = sub]_vars

\* C7: in streaming mode every timeout error frame is directly followed by
\* the "data: [DONE]" sentinel.
C7_ErrorFrameThenSentinel ==
    mode = "streaming"
        => \A i \in TimeoutErrors("error") :
               i < Len(res.out) /\ res.out[i + 1] = DoneSentinel

\* C8 as stated: in streaming mode, when the process has closed and no
\* result was observed, the close listener wrote an error frame naming the
\* exit code and then the sentinel if the code is not 0, and the sentinel
\* alone if it is 0.
C8_CloseWithoutResult ==
    (mode = "streaming" /\ exitCode # "none" /\ ~atClose.complete)
        => CloseWrites = IF exitCode # "0"
                         THEN <<ErrorFrame(ExitMessage(exitCode)), DoneSentinel>>
                         ELSE <<DoneSentinel>>

\* C8 amended: the same, provided the response had not been ended when the
\* close event arrived; on a response that was already ended the close
\* listener writes nothing.
C8_CloseWithoutResultOpen ==
    (mode = "streaming" /\ exitCode # "none" /\ ~atClose.complete)
        => CloseWrites = IF atClose.ended THEN <<>>
                         ELSE IF exitCode # "0"
                         THEN <<ErrorFrame(ExitMessage(exitCode)), DoneSentinel>>
                         ELSE <<DoneSentinel>>

C8_Witness ==
    /\ mode = "streaming"
    /\ exitCode = "1"
    /\ ~atClose.complete
    /\ ~atClose.ended
    /\ \E i \in DOMAIN res.out : isDelta(res.out[i])

\* C9: when the response closes before the request completed, after at
\* least one delta frame, kill() has been called exactly once; when it
\* closes after the request completed with a result, kill() is not called.
C9_KillCalls ==
    /\ (res.closed = "early" /\ ~res.completeAtClose
          /\ \E i \in 1..res.outAtClose : isDelta(res.out[i]))
         => killCalls = 1
    /\ (res.closed # "open" /\ res.completeAtClose) => killCalls = 0

C9_Witness ==
    /\ res.closed = "early"
    /\ \E i \in 1..res.outAtClose : isDelta(res.out[i])
    /\ killCalls = 1
    /\ sub.signals = 1
    /\ exitCode # "none"

\* C10: once the consumer has disconnected before completion, nothing more
\* is written to the response.
C10_NoWriteAfterDisconnect ==
    res.closed = "early" => Len(res.out) = res.outAtClose

(***************************************************************************)
(* The translator (SpecEvents).                                            *)
(***************************************************************************)
\* The frames that carry content: text deltas and separators.
ContentFrames ==
    {k \in DOMAIN res.out : res.out[k].type = "chunk" /\ res.out[k].content # <<>>}
DeltaFrames == {k \in DOMAIN res.out : isDelta(res.out[k])}
SeparatorFrames ==
    {k \in DOMAIN res.out : res.out[k].type = "chunk" /\ res.out[k].content = SeparatorText}
TerminalFrames ==
    {k \in DOMAIN res.out : res.out[k].type = "chunk" /\ res.out[k].finish = "stop"}
\* The log entries of the events of one name.
Logged(name) == {i \in DOMAIN log : log[i].ev.name = name}
\* The listener of the i-th logged event wrote exactly the frames first..last.
Wrote(i, first, last) == log[i].out + 1 = first /\ log[i].outAfter = last

\* C11: the role marker "assistant" is carried by exactly the first frame
\* with content of a request; that frame is the frame of a text-delta event
\* and carries the event's text; every later frame (delta, separator,
\* terminal, error, sentinel) carries no role.
C11_RoleOnFirstDelta ==
    \A k \in DOMAIN res.out :
        /\ res.out[k].role = "assistant"
              <=> (k \in ContentFrames /\ \A j \in 1..(k-1) : j \notin ContentFrames)
        /\ res.out[k].role = "assistant"
              => \E i \in Logged("content_delta") :
                     Wrote(i, k, k) /\ res.out[k].content = log[i].ev.msg.text

\* Two text deltas were emitted, the first with the role, the second without.
C11_Witness ==
    \E j, k \in DeltaFrames :
        j < k /\ res.out[j].role = "assistant" /\ res.out[k].role = "none"
\* A text-delta frame had been emitted when the i-th logged event was emitted.
DeltaBefore(i) == \E j \in DeltaFrames : j <= log[i].out
\* The listener of the i-th logged event wrote one frame, a separator.
WroteSeparator(i) ==
    Wrote(i, log[i].out + 1, log[i].out + 1) /\ (log[i].out + 1) \in SeparatorFrames
WroteNothing(i) == log[i].outAfter = log[i].out

\* C12, as stated: a text-block-start event writes a separator frame if and
\* only if a text-delta frame was emitted before it, and writes nothing
\* otherwise; nothing else writes a separator frame.
C12_SeparatorIff ==
    /\ \A i \in Logged("text_block_start") :
           /\ DeltaBefore(i) <=> WroteSeparator(i)
           /\ ~DeltaBefore(i) => WroteNothing(i)
    /\ \A k \in SeparatorFrames : \E i \in Logged("text_block_start") : Wrote(i, k, k)

\* C12, amended: a text-block-start event writes a separator frame if and
\* only if a text-delta frame was emitted before it and the response has not
\* been ended, and writes nothing otherwise; nothing else writes a separator
\* frame.
C12_SeparatorIffOpen ==
    /\ \A i \in Logged("text_block_start") :
           /\ (DeltaBefore(i) /\ ~log[i].ended) <=> WroteSeparator(i)
           /\ ~(DeltaBefore(i) /\ ~log[i].ended) => WroteNothing(i)
    /\ \A k \in SeparatorFrames : \E i \in Logged("text_block_start") : Wrote(i, k, k)

\* The child's whole output was read, and a text-block-start event that
\* came after a text delta wrote the separator.
C12_Witness ==
    /\ \E i \in Logged("text_block_start") : DeltaBefore(i) /\ WroteSeparator(i)
    /\ script = <<>>
\* The result events that were emitted before the response was ended.
LiveResults == {i \in Logged("result") : ~log[i].ended}
\* A token count of a result's usage block; a missing count is 0.
Tokens(count) == IF count = <<>> THEN 0 ELSE count[1]
\* The usage summary the spec describes for a usage block.
Summary(u) ==
    <<Tokens(u.input_tokens), Tokens(u.output_tokens),
      Tokens(u.input_tokens) + Tokens(u.output_tokens)>>
\* The listener of the i-th logged event wrote a terminal frame, with the
\* given usage, and then the sentinel, and nothing else.
WroteTerminal(i, usage) ==
    /\ Wrote(i, log[i].out + 1, log[i].out + 2)
    /\ LET f == res.out[log[i].out + 1]
       IN  /\ f.type = "chunk" /\ f.content = <<>> /\ f.role = "none"
           /\ f.finish = "stop" /\ f.usage = usage
    /\ res.out[log[i].out + 2] = DoneSentinel
UsageOnlyOnTerminal ==
    \A k \in DOMAIN res.out :
        res.out[k].usage # <<>> => \E i \in LiveResults : k = log[i].out + 1

\* C13, as stated: in streaming mode every result event emitted before the
\* response was ended writes a terminal frame (empty delta, finish_reason
\* stop) with a usage summary of the result's token counts and their sum,
\* immediately followed by the sentinel; no other frame has usage.
C13_TerminalFrame ==
    mode = "streaming" =>
        /\ \A i \in LiveResults :
               \E u \in {<<p, c, p + c>> : p \in {0, 5}, c \in {0, 1}} :
                   /\ WroteTerminal(i, u)
                   /\ log[i].ev.msg.usage # <<>> => u = Summary(log[i].ev.msg.usage[1])
        /\ UsageOnlyOnTerminal

\* C13, amended: the terminal frame has the usage summary when the result
\* has a usage block, and no usage when it has none.
C13_TerminalFrameUsageIfPresent ==
    mode = "streaming" =>
        /\ \A i \in LiveResults :
               WroteTerminal(i, IF log[i].ev.msg.usage # <<>>
                                THEN Summary(log[i].ev.msg.usage[1])
                                ELSE <<>>)
        /\ UsageOnlyOnTerminal

\* A result with 5 input and 1 output tokens was translated: total 6.
C13_Witness ==
    /\ mode = "streaming"
    /\ \E i \in LiveResults : WroteTerminal(i, <<5, 1, 6>>)
    /\ DeltaFrames # {}
(***************************************************************************)
(* Order of the frames (Spec: text deltas of two different texts).         *)
(***************************************************************************)
isTextDeltaEvent(e) == e.ev.name = "content_delta" /\ e.ev.msg.text # <<>>
isLiveTextDeltaEvent(e) == isTextDeltaEvent(e) /\ ~e.ended
isDeltaFrame(f) == isDelta(f)
\* The texts of the logged events that pass the test, in the order of the log.
EventTexts(Test(_)) ==
    LET sel == SelectSeq(log, Test) IN [i \in 1..Len(sel) |-> sel[i].ev.msg.text]
\* The contents of the text-delta frames, in the order they were written.
DeltaContents ==
    LET sel == SelectSeq(res.out, isDeltaFrame) IN [i \in 1..Len(sel) |-> sel[i].content]
\* Listeners write in the order of their events, and no delta or separator
\* frame comes after a terminal frame.
FramesInEventOrder ==
    /\ \A i, j \in DOMAIN log : i < j => log[i].outAfter <= log[j].out
    /\ \A k \in ContentFrames : \A t \in TerminalFrames : k < t

\* C14, as stated: in streaming mode the contents of the emitted text-delta
\* frames are, in order, the non-empty texts of the text-delta events; none
\* is dropped, duplicated or reordered; every delta or separator frame
\* precedes the terminal frame.
C14_DeltasInOrder ==
    mode = "streaming" =>
        DeltaContents = EventTexts(isTextDeltaEvent) /\ FramesInEventOrder

\* C14, amended: the same for the text-delta events that were emitted
\* before the response was ended.
C14_DeltasInOrderUntilEnded ==
    mode = "streaming" =>
        DeltaContents = EventTexts(isLiveTextDeltaEvent) /\ FramesInEventOrder

\* Two text deltas of different texts were emitted.
C14_Witness ==
    /\ mode = "streaming"
    /\ Len(DeltaContents) = 2
    /\ DeltaContents[1] # DeltaContents[2]
(***************************************************************************)
(* Reconstruction of the text (SpecConsistent).                            *)
(***************************************************************************)
\* C15: in streaming mode, when a result event wrote the terminal frame,
\* the contents of the text-delta frames, concatenated in order, are the
\* text of the result.
C15_DeltasReconstructResult ==
    mode = "streaming" =>
        \A i \in LiveResults : concat(DeltaContents) = log[i].ev.msg.text
(***************************************************************************)
(* Events without a frame (SpecEvents).                                    *)
(***************************************************************************)
\* The events one step added to the emitted events.
NewEvents == SubSeq(events', Len(events) + 1, Len(events'))
\* The names of the events that have no listener in the response handlers;
\* every decoded line emits "message" first.
Discarded == {"message", "tool_use_start", "input_json_delta", "content_block_stop"}
AllNamed(evs, names) == evs # <<>> /\ \A i \in DOMAIN evs : evs[i].name \in names
AssistantModels(evs) ==
    LET sel == SelectSeq(evs, LAMBDA e : e.name = "assistant")
    IN  [i \in 1..Len(sel) |-> sel[i].msg.model]

\* C16: a step whose events are tool-use block-start, input_json delta and
\* content-block-stop events writes nothing and leaves the translation state
\* unchanged; if assistant message events are among them, the step still
\* writes nothing, and it changes nothing of the translation state but
\* lastModel, which in streaming mode becomes the model of the last
\* assistant message.
C16_DiscardedEvents ==
    [][/\ AllNamed(NewEvents, Discarded) => (ts' = ts /\ res' = res)
       /\ AllNamed(NewEvents, Discarded \cup {"assistant"}) =>
             /\ res' = res
             /\ [ts' EXCEPT !.lastModel = ts.lastModel] = ts
             /\ (mode = "streaming" /\ AssistantModels(NewEvents) # <<>>) =>
                   ts'.lastModel = AssistantModels(NewEvents)[Len(AssistantModels(NewEvents))]
      ]_vars

\* In streaming mode an assistant message and a tool-use block start were
\* read, the only write is the initial comment, and the model is the
\* assistant message's.
C16_Witness ==
    /\ mode = "streaming"
    /\ Logged("tool_use_start") # {}
    /\ Logged("assistant") # {}
    /\ ts.lastModel = <<"opus", "x">>
    /\ res.out = <<OkComment>>
(***************************************************************************)
(* normalizeModelName (SpecNormalize).                                     *)
(***************************************************************************)
\* C17: normalizing a normalized identifier changes nothing: every result
\* after the first equals the first, for every identifier, absent included.
C17_NormalizeIdempotent ==
    \A i \in DOMAIN nm.results : nm.results[i] = nm.results[1]

\* The function was applied twice to a full identifier of the opus family,
\* which is not itself a label.
C17_Witness ==
    /\ Len(nm.results) >= 2
    /\ includes(nm.model, "opus")
    /\ nm.model # OpusLabel
    /\ nm.results[1] = OpusLabel
\* The family words an identifier contains.
Families(model) == {model[i] : i \in DOMAIN model} \cap {"opus", "sonnet", "haiku"}
Labels == {OpusLabel, SonnetLabel, HaikuLabel}

\* label is what the identifier model normalizes to.
NormalizesTo(model, label) ==
    /\ Families(model) # {} =>
          (label \in Labels /\ Families(label) \subseteq Families(model))
    /\ model = <<>> => label = SonnetLabel
    /\ (Families(model) = {} /\ model # <<>>) => label = model

\* C18, as stated: every identifier maps to one of the three labels, and an
\* identifier that contains none of opus, sonnet, haiku maps to the sonnet
\* label.
C18_NormalizeTotal ==
    nm.results # <<>> =>
        /\ nm.results[1] \in Labels
        /\ Families(nm.model) = {} => nm.results[1] = SonnetLabel

\* C18, amended: an identifier that contains opus, sonnet or haiku maps to
\* one of the three labels, the label of a family it contains; an absent or
\* empty identifier maps to the sonnet label; any other identifier is
\* returned unchanged.
C18_NormalizeByFamily == nm.results # <<>> => NormalizesTo(nm.model, nm.results[1])

\* The function was applied to a non-empty identifier that names no family.
C18_Witness ==
    /\ nm.results # <<>>
    /\ nm.model # <<>>
    /\ Families(nm.model) = {}
    /\ nm.results[1] = nm.model
(***************************************************************************)
(* The non-streaming response (SpecEvents).                                *)
(***************************************************************************)
\* The last result event that was emitted.
LastResult ==
    LET sel == SelectSeq(log, LAMBDA e : e.ev.name = "result") IN sel[Len(sel)].ev.msg
\* A chat.completion response: status 200, the given text as message
\* content, no error, the usage summary of the result (zeros without a block).
isCompletion(f, result) ==
    /\ f.type = "json" /\ f.finish = "200" /\ f.error = <<>>
    /\ f.content = result.text
    /\ f.usage = IF result.usage = <<>> THEN <<0, 0, 0>> ELSE Summary(result.usage[1])
NonStreamingResponse ==
    /\ \A i \in DOMAIN log : WroteNothing(i)
    /\ (exitCode # "none" /\ Logged("result") # {}) =>
          (Len(res.out) = 1 /\ isCompletion(res.out[1], LastResult))

\* C19: in non-streaming mode no event of the stream writes anything, and
\* once the process has closed after a result event, the response is a
\* single chat.completion with the result's text and its usage summary.
C19_NonStreamingResponse == mode = "nonstreaming" => NonStreamingResponse

\* The same, for the requests whose timer never fired.
C19_NonStreamingResponseNoTimeout ==
    (mode = "nonstreaming" /\ ErrorEvents = {}) => NonStreamingResponse
\* The chat.completion responses.
Completions == {k \in DOMAIN res.out : res.out[k].type = "json" /\ res.out[k].finish = "200"}
\* The model of the last assistant message that was emitted.
LastAssistantModel ==
    LET sel == SelectSeq(log, LAMBDA e : e.ev.name = "assistant")
    IN  sel[Len(sel)].ev.msg.model

\* C20, as stated: in non-streaming mode, when an assistant message reported
\* a model and a result followed, the model of the chat.completion response
\* is the label that model normalizes to.
C20_ModelOfAssistant ==
    (mode = "nonstreaming" /\ Logged("assistant") # {}) =>
        \A k \in Completions : NormalizesTo(LastAssistantModel, res.out[k].model)

\* C20, amended: the model of the chat.completion response is the label
\* that the first key of the result's modelUsage normalizes to, and the
\* sonnet label when the result has no modelUsage.
C20_ModelOfModelUsage ==
    mode = "nonstreaming" =>
        \A k \in Completions :
            IF LastResult.modelUsage = <<>>
            THEN res.out[k].model = SonnetLabel
            ELSE NormalizesTo(LastResult.modelUsage[1], res.out[k].model)

\* An assistant message reported an opus model, the result's modelUsage
\* names a haiku model, and the response has the haiku label.
C20_Witness ==
    /\ mode = "nonstreaming"
    /\ Logged("assistant") # {}
    /\ Families(LastAssistantModel) = {"opus"}
    /\ \E k \in Completions : res.out[k].model = HaikuLabel
(***************************************************************************)
(* Failures (Spec).                                                        *)
(***************************************************************************)
\* An error response: a res.json call with an error status and an error
\* body, without content and without usage.
isErrorResponse(f) ==
    /\ f.type = "json" /\ f.finish \in {"400", "500"}
    /\ f.error # <<>> /\ f.content = <<>> /\ f.usage = <<>>

\* C21: in non-streaming mode, once the process has closed without any
\* result event, a response has been sent and every response sent is an
\* error object with an error status.
C21_ErrorWithoutResult ==
    (mode = "nonstreaming" /\ exitCode # "none" /\ Logged("result") = {}) =>
        /\ res.out # <<>>
        /\ \A k \in DOMAIN res.out : isErrorResponse(res.out[k])

\* The child wrote a text delta and exited with code 1; the response is
\* the error that cites the exit code.
C21_Witness ==
    /\ mode = "nonstreaming"
    /\ exitCode = "1"
    /\ Logged("content_delta") # {}
    /\ Logged("result") = {}
    /\ res.out = <<[Write("json", "none", <<>>, <<>>, "500", NoResponseMessage("1"))
                      EXCEPT !.usage = <<>>]>>

(***************************************************************************)
(* The argument vector: requests whose prompt is any text of at most       *)
(* MaxPromptLen parts, some of them spelled like flags or shell syntax,    *)
(* for each model alias, with and without a session identifier.            *)
(***************************************************************************)
PromptParts == {"x", SP, "--session-id", "; rm -rf /"}
Prompts == UNION { [1..n -> PromptParts] : n \in 0..MaxPromptLen }
ModelAliases == { <<"opus">>, <<"sonnet">>, <<"haiku">> }
SessionIds == { <<>>, <<"s1">>, <<"x">> }

ArgRequests ==
    [messages : {ValidBody}, prompt : Prompts, model : ModelAliases,
     sessionId : SessionIds]

SpecArgs == InitWith({<<>>}, {<<>>}, ArgRequests) /\ [][HandleChatCompletions]_vars

FixedArgs(model) ==
    << <<"--print">>, <<"--dangerously-skip-permissions">>, <<"--output-format">>,
       <<"stream-json">>, <<"--verbose">>, <<"--include-partial-messages">>,
       <<"--model">>, model, <<"--no-session-persistence">>,
       <<"--append-system-prompt">>, OPENCLAW_TOOL_MAPPING_PROMPT >>
PromptIndex == 12
HasSessionArgs ==
    /\ Len(args) = PromptIndex + 2
    /\ args[PromptIndex + 1] = <<"--session-id">>
    /\ args[PromptIndex + 2] = req.sessionId

\* C23 (as stated): the vector is the fixed list with the model after
\* --model, the session flag and value are there iff a session identifier
\* was given, and the prompt is the last element.
C23_PromptIsFinal ==
    args # <<>> =>
        /\ SubSeq(args, 1, PromptIndex - 1) = FixedArgs(req.model)
        /\ (req.sessionId # <<>>) <=> HasSessionArgs
        /\ Len(args) \in {PromptIndex, PromptIndex + 2}
        /\ args[Len(args)] = req.prompt

\* C23 (amended): the vector is the fixed list with the model after
\* --model, then the prompt as one element; the session flag and value
\* follow the prompt iff a session identifier was given, so the prompt is
\* the last element only without one.
C23_PromptThenSession ==
    args # <<>> =>
        /\ SubSeq(args, 1, PromptIndex - 1) = FixedArgs(req.model)
        /\ args[PromptIndex] = req.prompt
        /\ (req.sessionId # <<>>) <=> HasSessionArgs
        /\ (req.sessionId = <<>>) <=> (Len(args) = PromptIndex)

\* A prompt of full length, spelled like the session flag, was passed along
\* with a session identifier.
C23_Witness ==
    /\ req.sessionId = <<"s1">>
    /\ req.prompt = <<"--session-id", "x">>
    /\ Len(args) = PromptIndex + 2
    /\ args[PromptIndex] = req.prompt
    /\ args[Len(args)] = req.sessionId

\* The error responses and error frames written so far.
ErrorWrites == { k \in DOMAIN res.out : res.out[k].error # <<>> }

\* C22: once the child's "error" event of a failed spawn was handled, start()
\* is rejected, with the "Claude CLI not found" message for ENOENT and the
\* original error otherwise, and an ENOENT is what the response reports.
C22_SpawnErrorRejectsStart ==
    (sub.spawn \in {"ENOENT", "EACCES"} /\ ~sub.errorPending) =>
        /\ sub.start = "rejected"
        /\ sub.rejection = IF sub.spawn = "ENOENT" THEN NotFoundMessage
                           ELSE SpawnMessage(sub.spawn)
        /\ \A k \in ErrorWrites :
              sub.spawn = "ENOENT" => res.out[k].error = NotFoundMessage

(***************************************************************************)
(* Lines of every fate: text that is not JSON, a blank line, JSON that is  *)
(* translated, and an assistant object without its message field.         *)
(***************************************************************************)
FatePool ==
    { <<"x">>, <<SP>>, <<"{D", "x", "}">>, <<"{R", "x", "}">>,
      <<"{A", "opus", "}">>, <<"{a", "}">> }

FateScripts ==
    LET seqs == UNION { [1..n -> FatePool] : n \in 0..MaxLines }
    IN  { joinLines(ls) : ls \in seqs }
        \cup { SubSeq(joinLines(ls), 1, Len(joinLines(ls)) - 1) : ls \in seqs \ {<<>>} }

SpecLines == InitWith(FateScripts, {<<>>}, ValidRequests) /\ [][Next]_vars

\* The complete lines the step hands to the decoder: those of the buffer
\* with the chunk the step read appended.
NewChunk == SubSeq(delivered', Len(delivered) + 1, Len(delivered'))
NewLines ==
    IF NewChunk = <<>> THEN <<>>
    ELSE processBufferLines(sub.buffer \o toString(NewChunk))
isMalformed(line) == trim(line) # <<>> /\ ~JSONparse(trim(line)).ok
isParsed(line) == trim(line) # <<>> /\ JSONparse(trim(line)).ok
isRawEvent(e) == e.name = "raw"
isDecodedEvent(e) == e.name \notin {"raw", "error", "close"}

\* C25: a line that is not JSON is not fatal.  No step that decodes lines
\* emits an error event; a step in which only malformed lines were decoded
\* emits raw events only and changes neither the translation state nor the
\* response; and the other lines of a step are decoded into the events they
\* would give without the malformed ones.
C25_MalformedLineNonFatal ==
    [][/\ (NewLines # <<>>) =>
             \A i \in DOMAIN NewEvents : NewEvents[i].name # "error"
       /\ (NewLines # <<>> /\ \A i \in DOMAIN NewLines :
                                  isMalformed(NewLines[i]) \/ trim(NewLines[i]) = <<>>) =>
             /\ \A i \in DOMAIN NewEvents : isRawEvent(NewEvents[i])
             /\ ts' = ts
             /\ res' = res
       /\ (NewLines # <<>>) =>
             SelectSeq(NewEvents, isDecodedEvent)
               = SelectSeq(linesEvents(SelectSeq(NewLines, isParsed)), isDecodedEvent)]_vars

\* A malformed line was reported as raw, and a text delta that came after
\* it was translated into a frame; no error was written.
C25_Witness ==
    /\ mode = "streaming"
    /\ \E i, j \in DOMAIN events :
          /\ i < j
          /\ events[i] = RawEv(<<"x">>)
          /\ events[j].name = "content_delta"
    /\ \E k \in DOMAIN res.out : isDeltaFrame(res.out[k])
    /\ \A k \in DOMAIN res.out : res.out[k].error = <<>>

(* Validation (Spec). *)
isMissing(m) == ~m.present
isNotArray(m) == m.present /\ ~m.isArray
isEmptyArray(m) == m.present /\ m.isArray /\ m.length = 0
RejectedResponse ==
    [Write("json", "none", <<>>, <<>>, "400", InvalidMessages) EXCEPT !.usage = <<>>]

\* C26: a request whose messages field is missing, not an array or an empty
\* array is answered, once handled, by the 400 with the code
\* invalid_messages and by nothing else, and no session is started for it:
\* no arguments built, no child spawned, no timer, no event.
C26_InvalidMessagesRejected ==
    (phase # "new" /\ (\/ isMissing(req.messages) \/ isNotArray(req.messages)
                      \/ isEmptyArray(req.messages))) =>
        /\ res.out = <<RejectedResponse>>
        /\ res.out[1].finish = "400" /\ res.out[1].error[3] = "invalid_messages"
        /\ ~res.thrown
        /\ sub.start = "none" /\ sub.spawn = "none" /\ sub.process = "null"
        /\ sub.timeoutId = "null" /\ ~sub.timerPending
        /\ args = <<>> /\ events = <<>> /\ exitCode = "none"

\* A request with an empty messages array was rejected.
C26_Witness ==
    /\ isEmptyArray(req.messages)
    /\ phase = "rejected"
    /\ res.out = <<RejectedResponse>>

\* C27: isRunning() is true exactly when the handle is there, the session
\* was not killed and the process has not exited; so it is false before
\* start, after kill(), after the timeout and after the exit.
C27_IsRunning ==
    isRunning(sub) <=> (sub.process # "null" /\ ~sub.isKilled /\ exitCode = "none")

(***************************************************************************)
(* Progress.  The request handler runs once the request is there; a timer  *)
(* that is set and not cleared fires; the "error" event of a failed spawn  *)
(* is emitted; a child that was signalled, or that was never spawned,      *)
(* closes.  A child left alone may run forever.                            *)
(***************************************************************************)
ClosesByItself == sub.signals > 0 \/ sub.spawn # "ok"

SpecFair ==
    /\ Init /\ [][Next]_vars
    /\ WF_vars(HandleChatCompletions)
    /\ WF_vars(Timeout)
    /\ WF_vars(ProcError)
    /\ WF_vars(ClosesByItself /\ \E code \in ExitCodes \cup SpawnCodes : ProcClose(code))

\* The streaming response was ended, or the non-streaming response sent.
Terminal ==
    IF mode = "streaming" THEN res.writableEnded
    ELSE \E k \in DOMAIN res.out : res.out[k].type = "json"

\* C28: every request that was started eventually reaches its terminal
\* outcome.
C28_EventuallyTerminal == (phase = "running") ~> Terminal

\* The same for the requests whose start() did not reject.
C28_EventuallyTerminalIfSpawned ==
    (phase = "running" /\ sub.start = "resolved") ~> Terminal

isMessageEvent(e) == e.name = "message"
Count(seq, Test(_)) == Len(SelectSeq(seq, Test))

\* C29: of the complete lines a step decodes, each line that parses as JSON
\* yields one message event and no raw event, each other non-blank line
\* one raw event and no message event, and a blank line no event.
C29_MessageOrRaw ==
    [][(NewLines # <<>>) =>
           /\ Count(NewEvents, isMessageEvent) = Count(NewLines, isParsed)
           /\ Count(NewEvents, isRawEvent) = Count(NewLines, isMalformed)
           /\ (\A i \in DOMAIN NewLines : trim(NewLines[i]) = <<>>) => NewEvents = <<>>]_vars

\* C30: close is signalled on the exit of the process only; from then on
\* the timer is disabled, and the session's events hold exactly one close,
\* as their last event, with the exit code (null for a signalled child).
C30_CloseIsLast ==
    /\ (exitCode = "none") => CloseEvents = {}
    /\ (exitCode # "none") =>
          /\ sub.timeoutId = "null" /\ ~sub.timerPending
          /\ CloseEvents = {Len(events)}
          /\ events[Len(events)].msg.text = <<exitCode>>

\* A signalled child closed after lines were decoded and after the timeout
\* error: close came last, with the code null.
C30_Witness ==
    /\ exitCode = "null"
    /\ sub.isKilled /\ sub.signals = 1
    /\ ErrorEvents # {}
    /\ \E i \in DOMAIN events : events[i].name = "message"
    /\ events[Len(events)].name = "close"
    /\ events[Len(events)].msg.text = <<"null">>

\* The events that carry output of the child.
OutputEvents == {"message", "content_delta", "assistant", "result"}

\* C24: once the session was killed (by kill() or by the timeout) or the
\* process exited, no step delivers a message, content_delta, assistant or
\* result event.
C24_NoOutputAfterKill ==
    [][(sub.isKilled \/ exitCode # "none") =>
           \A i \in DOMAIN NewEvents : NewEvents[i].name \notin OutputEvents]_vars

(* Cancellation (Spec). *)
\* C31: once kill() was called for the client's disconnect, the timer is
\* disabled: no step emits an error event any more, and every timeout error
\* in the response was written before the disconnect.
C31_NoTimeoutAfterKill ==
    /\ [](killCalls > 0 =>
            /\ ~sub.timerPending
            /\ \A k \in TimeoutErrors("error") : k <= res.outAtClose)
    /\ [][killCalls > 0 =>
             \A i \in DOMAIN NewEvents : NewEvents[i].name # "error"]_vars

\* The client disconnected from a running session, whose timer was still
\* to fire: the child was signalled, closed, and no error event was emitted.
C31_Witness ==
    /\ killCalls = 1 /\ res.closed = "early"
    /\ sub.isKilled /\ sub.signals = 1 /\ sub.timeoutId = "null"
    /\ exitCode = "null"
    /\ ErrorEvents = {}

\* C32: whatever the order of the timeout, the kill() calls and the exit,
\* at most one signal is sent to the child, and no step clears isKilled.
C32_OneSignal ==
    /\ [](sub.signals <= 1)
    /\ [][sub.isKilled => sub'.isKilled]_vars

\* The timeout signalled the child, kill() was called afterwards for the
\* client's disconnect, and the child closed: one signal in all.
C32_Witness ==
    /\ ErrorEvents # {}
    /\ killCalls = 1
    /\ sub.isKilled /\ sub.signals = 1
    /\ exitCode = "null"

(* The ended response (SpecEvents). *)
\* C33: in streaming mode no step writes to a response that was ended, and
\* an ended response ends with the sentinel or with an error frame.
C33_NoWriteAfterEnd ==
    /\ []((mode = "streaming" /\ res.writableEnded) =>
            res.out[Len(res.out)].type \in {"done", "error"})
    /\ [][(mode = "streaming" /\ res.writableEnded) =>
             (res'.out = res.out /\ res'.writableEnded)]_vars

\* The response was ended by the result; a text delta decoded after it, the
\* timeout error and the close of the child wrote nothing more.
C33_Witness ==
    /\ mode = "streaming"
    /\ \E i \in Logged("content_delta") : log[i].ended
    /\ \E i, j \in DOMAIN events :
          i < j /\ events[i].name = "result" /\ events[j].name = "error"
    /\ exitCode # "none"
    /\ Cardinality(Sentinels) = 1
    /\ res.out[Len(res.out)] = DoneSentinel
    /\ \A k \in DOMAIN res.out : res.out[k].error = <<>>

\* C34: every chat.completion.chunk frame of a streaming response, delta,
\* separator or terminal, carries one of the three public model labels.
C34_FrameLabels ==
    mode = "streaming" =>
        \A k \in DOMAIN res.out :
            res.out[k].type = "chunk" => res.out[k].model \in Labels
====
